---------------------------- MODULE Spec2Model ----------------------------
(***************************************************************************)
(* Model of src/pipeline/run_pipeline.py: the Customer x Item demand       *)
(* forecasting batch.  The script is one straight-line run; each STEP of   *)
(* the script is one action, and pc names the step that runs next.         *)
(*                                                                         *)
(* Representation.                                                         *)
(*  - A DataFrame is a sequence of records (its rows, in row order).       *)
(*  - A monthly Period is its ordinal n: year n \div 12, month n % 12 + 1. *)
(*  - Quantities are integers.  A mean is kept as the exact fraction       *)
(*    <<sum, count>>, and cv as the fraction <<num, den>> of its square    *)
(*    (cv >= 0, so cv > c iff cv^2 > c^2); comparisons are made on the     *)
(*    fractions by cross multiplication.  The script computes them in      *)
(*    64-bit floats; for the small integers used here a float comparison   *)
(*    of two quotients agrees with the exact one, also where cv is exactly *)
(*    1.5 (three equal orders in nine months).                             *)
(*  - Dates are valid calendar months and quantities are finite numbers,   *)
(*    as the staging table is expected to provide them.                    *)
(*  - A nullable cell (NaN after a left merge) is <<>> when null and <<v>> *)
(*    when it holds v.                                                     *)
(***************************************************************************)
EXTENDS Integers, Sequences, FiniteSets, TLC

VARIABLES
    pc,                 \* the step of the script that runs next
    df_raw,             \* rows read from dbo.Stg_CustomerItemDispatch
    monthly_df,         \* STEP 5: TotalQty by (CustId, ItemCode, YearMonth)
    all_months,         \* STEP 6: pd.period_range(min, max)
    customer_item_map,  \* STEP 6 / STEP 13: distinct (CustId, ItemCode)
    monthly_full,       \* STEP 6: the dense grid
    layer1_metrics,     \* STEP 8
    current_month,      \* STEP 9: reference month
    layer2_base,        \* STEP 9 (2a)
    recent_activity,    \* STEP 9 (2b)
    planning_df,        \* STEP 10
    forecast_df,        \* STEP 12
    forecast_summary,   \* STEP 13
    written,            \* the csv files written so far by this run
    error,              \* message of the assertion that aborted the run
    call,               \* arguments of an invocation of forecast_next_month
    ret                 \* its return value

vars == <<pc, df_raw, monthly_df, all_months, customer_item_map, monthly_full,
          layer1_metrics, current_month, layer2_base, recent_activity,
          planning_df, forecast_df, forecast_summary, written, error, call, ret>>

---------------------------------------------------------------------------
(* Bounds of the model *)

MaxRows == 2
MaxMonths == 30
MaxRun == 7
MaxTs == 7

(* Program constants *)

RecentWindow == 12
TailLen == 6
OneTimeMax == 2
ActiveMin == 6
AdvisoryMin == 2

---------------------------------------------------------------------------
(* Generic helpers *)

Null == <<>>
Some(v) == <<v>>
IsNull(x) == x = <<>>

RECURSIVE SetToSeq(_)
SetToSeq(S) ==
    IF S = {} THEN <<>>
    ELSE LET x == CHOOSE y \in S : TRUE IN <<x>> \o SetToSeq(S \ {x})

RECURSIVE SumFrom(_, _)
SumFrom(s, i) == IF i > Len(s) THEN 0 ELSE s[i] + SumFrom(s, i + 1)

SumSeq(s) == SumFrom(s, 1)

RECURSIVE FlattenFrom(_, _)
FlattenFrom(ss, i) == IF i > Len(ss) THEN <<>> ELSE ss[i] \o FlattenFrom(ss, i + 1)

Flatten(ss) == FlattenFrom(ss, 1)

SetMin(S) == CHOOSE x \in S : \A y \in S : x <= y
SetMax(S) == CHOOSE x \in S : \A y \in S : x >= y

\* a > b for fractions <<n, d>> with d > 0
FracGT(a, b) == a[1] * b[2] > b[1] * a[2]

\* s.tail(n)
TailN(s, n) == IF Len(s) <= n THEN s ELSE SubSeq(s, Len(s) - n + 1, Len(s))

\* Period.year / Period.month of a monthly period ordinal
YearOf(p) == p \div 12
MonthOf(p) == (p % 12) + 1

PairOf(r) == <<r.CustId, r.ItemCode>>

---------------------------------------------------------------------------
(* Inputs: the contents of the staging table *)

Customers == {1, 2}
ItemCodes == {"A", "B"}
RawMonths == {1, 2, 3}
RawQuantities == {-1, 0, 1}
RunQuantities == {1, 2}
SpikeQuantities == {0, 1, 9}

RawRecords ==
    [CustId : Customers, ItemCode : ItemCodes,
     YearMonth : RawMonths, Quantity : RawQuantities]

\* every table of at most MaxRows rows, in any order, repeats allowed
SmallInputs == UNION {[1..n -> RawRecords] : n \in 0..MaxRows}

Row(c, i, m, q) == [CustId |-> c, ItemCode |-> i, YearMonth |-> m, Quantity |-> q]

\* k consecutive monthly invoices of quantity q starting in month s
RunRows(c, i, s, k, q) == [j \in 1..k |-> Row(c, i, s + j - 1, q)]

\* A history over T months: customer 1 orders item "A" in a run of k months
\* (the first k or the last k of the T months) and possibly once more at the
\* other end of the range; customer 2 orders item "B" in the first and in
\* the last month.
History(T, k, q, atEnd, sq) ==
    RunRows(1, "A", IF atEnd THEN T - k + 1 ELSE 1, k, q)
    \o (IF sq = 0 THEN <<>> ELSE <<Row(1, "A", IF atEnd THEN 1 ELSE T, sq)>>)
    \o <<Row(2, "B", 1, 1), Row(2, "B", T, 1)>>

HistoryInputs ==
    {History(T, k, q, atEnd, sq) :
        T \in 1..MaxMonths, k \in 0..MaxRun, q \in RunQuantities,
        atEnd \in BOOLEAN, sq \in SpikeQuantities}

Inputs == SmallInputs \cup {h \in HistoryInputs : \A i \in 1..Len(h) : h[i].YearMonth >= 1}

NoCall == [ts |-> <<>>, segment |-> "", recent_active_months |-> 0]

Init ==
    /\ pc = "check_raw"
    /\ df_raw \in Inputs
    /\ monthly_df = <<>>
    /\ all_months = <<>>
    /\ customer_item_map = <<>>
    /\ monthly_full = <<>>
    /\ layer1_metrics = <<>>
    /\ current_month = 0
    /\ layer2_base = <<>>
    /\ recent_activity = <<>>
    /\ planning_df = <<>>
    /\ forecast_df = <<>>
    /\ forecast_summary = <<>>
    /\ written = {}
    /\ error = ""
    /\ call = NoCall
    /\ ret = <<0, 1>>

Fail(msg) ==
    /\ pc' = "failed"
    /\ error' = msg

---------------------------------------------------------------------------
(* STEP 3: safety check on the loaded rows *)

CheckRaw ==
    /\ pc = "check_raw"
    /\ IF Len(df_raw) > 0
       THEN pc' = "aggregate" /\ error' = error
       ELSE Fail("Staging table returned zero rows")
    /\ UNCHANGED <<df_raw, monthly_df, all_months, customer_item_map,
                   monthly_full, layer1_metrics, current_month, layer2_base,
                   recent_activity, planning_df, forecast_df, forecast_summary,
                   written, call, ret>>

---------------------------------------------------------------------------
(* STEP 5: monthly aggregation *)

KeyOf(r) == <<r.CustId, r.ItemCode, r.YearMonth>>

\* df.groupby([CustId, ItemCode, YearMonth]).agg(TotalQty = sum(Quantity)):
\* one row per distinct key
GroupSum(df) ==
    LET keys == {KeyOf(df[i]) : i \in 1..Len(df)}
        total(key) ==
            LET hit(r) == KeyOf(r) = key
                rows == SelectSeq(df, hit)
            IN SumSeq([j \in 1..Len(rows) |-> rows[j].Quantity])
        ks == SetToSeq(keys)
    IN [j \in 1..Len(ks) |->
            [CustId |-> ks[j][1], ItemCode |-> ks[j][2],
             YearMonth |-> ks[j][3], TotalQty |-> total(ks[j])]]

MonthlyAggregation ==
    /\ pc = "aggregate"
    /\ monthly_df' = GroupSum(df_raw)
    /\ IF Len(monthly_df') = 0
       THEN Fail("Monthly aggregation produced zero rows")
       ELSE IF \E i \in 1..Len(monthly_df') : monthly_df'[i].TotalQty < 0
            THEN Fail("Negative quantities found after aggregation")
            ELSE pc' = "expand" /\ error' = error
    /\ UNCHANGED <<df_raw, all_months, customer_item_map,
                   monthly_full, layer1_metrics, current_month, layer2_base,
                   recent_activity, planning_df, forecast_df, forecast_summary,
                   written, call, ret>>

---------------------------------------------------------------------------
(* STEP 6: full month expansion *)

\* pd.period_range(start, end, freq="M")
PeriodRange(start, end) ==
    IF end < start THEN <<>> ELSE [j \in 1..(end - start + 1) |-> start + j - 1]

\* mutant: only the months that hold a transaction, no gap filled
AllMonths_Observed(mdf) ==
    LET ms == {mdf[i].YearMonth : i \in 1..Len(mdf)}
        lo == SetMin(ms)
    IN SelectSeq(PeriodRange(lo, SetMax(ms)), LAMBDA m : m \in ms)

AllMonths(mdf) ==
    LET ms == {mdf[i].YearMonth : i \in 1..Len(mdf)}
    IN PeriodRange(SetMin(ms), SetMax(ms))

\* df[[CustId, ItemCode]].drop_duplicates()
DistinctPairs(df) ==
    LET ps == SetToSeq({PairOf(df[i]) : i \in 1..Len(df)})
    IN [j \in 1..Len(ps) |-> [CustId |-> ps[j][1], ItemCode |-> ps[j][2]]]

\* cross join of the pairs with the months
CrossJoin(pairs, months) ==
    Flatten([p \in 1..Len(pairs) |->
        [m \in 1..Len(months) |->
            [CustId |-> pairs[p].CustId, ItemCode |-> pairs[p].ItemCode,
             YearMonth |-> months[m]]]])

\* full_grid.merge(monthly_df, on=[CustId, ItemCode, YearMonth], how="left"):
\* one row per matching right row, or one row with a null TotalQty
LeftMergeQty(grid, mdf) ==
    Flatten([g \in 1..Len(grid) |->
        LET hit(r) == KeyOf(r) = KeyOf(grid[g])
            m == SelectSeq(mdf, hit)
        IN IF m = <<>>
           THEN <<[CustId |-> grid[g].CustId, ItemCode |-> grid[g].ItemCode,
                   YearMonth |-> grid[g].YearMonth, TotalQty |-> Null]>>
           ELSE [j \in 1..Len(m) |->
                  [CustId |-> grid[g].CustId, ItemCode |-> grid[g].ItemCode,
                   YearMonth |-> grid[g].YearMonth, TotalQty |-> Some(m[j].TotalQty)]]])

\* monthly_full["TotalQty"].fillna(0)
FillQty(df) ==
    [j \in 1..Len(df) |->
        [df[j] EXCEPT !.TotalQty = IF IsNull(@) THEN 0 ELSE @[1]]]

FullMonthExpansion ==
    /\ pc = "expand"
    /\ all_months' = AllMonths(monthly_df)
    /\ customer_item_map' = DistinctPairs(monthly_df)
    /\ \E full_grid \in {CrossJoin(customer_item_map', all_months')} :
       \E merged \in {LeftMergeQty(full_grid, monthly_df)} :
          monthly_full' = FillQty(merged)
    /\ pc' = "layer1"
    /\ UNCHANGED <<df_raw, monthly_df, layer1_metrics, current_month, layer2_base,
                   recent_activity, planning_df, forecast_df, forecast_summary,
                   written, error, call, ret>>

---------------------------------------------------------------------------
(* STEP 8: historical demand segmentation (Layer 1) *)

ZeroRatioCut == <<4, 5>>    \* 0.80
LumpyCut2 == <<9, 4>>       \* 1.5 squared
ModerateCut2 == <<1, 4>>    \* 0.5 squared

\* the rows of df that belong to pair p, in row order
RowsOf(df, p) == LET hit(r) == PairOf(r) = p IN SelectSeq(df, hit)

\* the pairs of df, one each: the groups of df.groupby([CustId, ItemCode])
GroupKeys(df) == SetToSeq({PairOf(df[i]) : i \in 1..Len(df)})

QtyOf(rows) == [j \in 1..Len(rows) |-> rows[j].TotalQty]

Squares(q) == [j \in 1..Len(q) |-> q[j] * q[j]]

\* (x > 0).sum()
CountActive(q) == Cardinality({j \in 1..Len(q) : q[j] > 0})

\* Series.std() squared (ddof = 1); NaN for a single value, filled with 0
VarQty(q) ==
    LET n == Len(q)
        S == SumSeq(q)
    IN IF n <= 1 THEN <<0, 1>>
       ELSE <<n * SumSeq(Squares(q)) - S * S, n * (n - 1)>>

\* np.where(avg_qty > 0, std_qty / avg_qty, 0), squared
Cv2(q) ==
    LET n == Len(q)
        S == SumSeq(q)
        v == VarQty(q)
    IN IF S > 0 THEN <<v[1] * n * n, v[2] * S * S>> ELSE <<0, 1>>

\* mutant: the variability rules tried before the sparsity rules
classify_demand_CvFirst(row) ==
    IF FracGT(row.cv2, LumpyCut2) THEN "Lumpy"
    ELSE IF row.active_months <= OneTimeMax THEN "One-time"
    ELSE IF FracGT(row.zero_ratio, ZeroRatioCut) THEN "Intermittent"
    ELSE IF FracGT(row.cv2, ModerateCut2) THEN "Moderate"
    ELSE "Stable"

\* mutant: the Intermittent rule cuts at 0.90 instead of 0.80
classify_demand_Cut90(row) ==
    IF row.active_months <= OneTimeMax THEN "One-time"
    ELSE IF FracGT(row.zero_ratio, <<9, 10>>) THEN "Intermittent"
    ELSE IF FracGT(row.cv2, LumpyCut2) THEN "Lumpy"
    ELSE IF FracGT(row.cv2, ModerateCut2) THEN "Moderate"
    ELSE "Stable"

classify_demand(row) ==
    IF row.active_months <= OneTimeMax THEN "One-time"
    ELSE IF FracGT(row.zero_ratio, ZeroRatioCut) THEN "Intermittent"
    ELSE IF FracGT(row.cv2, LumpyCut2) THEN "Lumpy"
    ELSE IF FracGT(row.cv2, ModerateCut2) THEN "Moderate"
    ELSE "Stable"

Layer1Metrics(p, q) ==
    [CustId |-> p[1], ItemCode |-> p[2],
     avg_qty |-> <<SumSeq(q), Len(q)>>,
     var_qty |-> VarQty(q),
     active_months |-> CountActive(q),
     total_months |-> Len(q),
     cv2 |-> Cv2(q),
     zero_months |-> Len(q) - CountActive(q),
     zero_ratio |-> <<Len(q) - CountActive(q), Len(q)>>]

WithSegment(row) ==
    [CustId |-> row.CustId, ItemCode |-> row.ItemCode,
     avg_qty |-> row.avg_qty, var_qty |-> row.var_qty,
     active_months |-> row.active_months, total_months |-> row.total_months,
     cv2 |-> row.cv2, zero_months |-> row.zero_months,
     zero_ratio |-> row.zero_ratio,
     DemandSegment |-> classify_demand(row)]

Layer1 ==
    /\ pc = "layer1"
    /\ \E ks \in {GroupKeys(monthly_full)} :
       \E rows \in {[j \in 1..Len(ks) |->
                       CHOOSE r \in {Layer1Metrics(ks[j], q) :
                                        q \in {QtyOf(RowsOf(monthly_full, ks[j]))}} : TRUE]} :
          layer1_metrics' = [j \in 1..Len(rows) |-> WithSegment(rows[j])]
    /\ pc' = "layer2"
    /\ UNCHANGED <<df_raw, monthly_df, all_months, customer_item_map, monthly_full,
                   current_month, layer2_base, recent_activity, planning_df,
                   forecast_df, forecast_summary, written, error, call, ret>>

---------------------------------------------------------------------------
(* STEP 9: temporal / recency features (Layer 2) *)

MonthsOf(rows) == {rows[j].YearMonth : j \in 1..Len(rows)}

\* (current.year - last.year) * 12 + (current.month - last.month)
MonthsSince(cur, last) ==
    (YearOf(cur) - YearOf(last)) * 12 + (MonthOf(cur) - MonthOf(last))

\* monthly_full.loc[TotalQty > 0]
ActiveRows(df) == LET act(r) == r.TotalQty > 0 IN SelectSeq(df, act)

\* monthly_full.loc[YearMonth > recent_cutoff]
RecentRows(df, cutoff) == LET rec(r) == r.YearMonth > cutoff IN SelectSeq(df, rec)

Layer2Base(df, cur) ==
    LET ks == GroupKeys(df)
    IN [j \in 1..Len(ks) |->
          CHOOSE r \in
            {[CustId |-> ks[j][1], ItemCode |-> ks[j][2],
              first_order_month |-> SetMin(ms),
              last_order_month |-> SetMax(ms),
              months_since_last_order |-> MonthsSince(cur, SetMax(ms))] :
                ms \in {MonthsOf(RowsOf(df, ks[j]))}} : TRUE]

RecentActivity(df) ==
    LET ks == GroupKeys(df)
    IN [j \in 1..Len(ks) |->
          CHOOSE r \in
            {[CustId |-> ks[j][1], ItemCode |-> ks[j][2],
              recent_active_months |-> CountActive(q),
              recent_avg_qty |-> <<SumSeq(q), Len(q)>>] :
                q \in {QtyOf(RowsOf(df, ks[j]))}} : TRUE]

Layer2 ==
    /\ pc = "layer2"
    /\ current_month' = SetMax(MonthsOf(monthly_full))
    /\ \E act \in {ActiveRows(monthly_full)} :
          layer2_base' = Layer2Base(act, current_month')
    /\ \E rec \in {RecentRows(monthly_full, current_month' - RecentWindow)} :
          recent_activity' = RecentActivity(rec)
    /\ IF \E j \in 1..Len(layer2_base') : layer2_base'[j].months_since_last_order < 0
       THEN Fail("Negative recency detected")
       ELSE pc' = "planning" /\ error' = error
    /\ UNCHANGED <<df_raw, monthly_df, all_months, customer_item_map, monthly_full,
                   layer1_metrics, planning_df, forecast_df, forecast_summary,
                   written, call, ret>>

---------------------------------------------------------------------------
(* STEP 10: PlanningStatus and ForecastPolicy *)

InactiveAfter == 12

\* the cell a left merge on [CustId, ItemCode] brings in from tbl: null when
\* tbl has no row for the pair
Merged(tbl, p, column) ==
    LET m == RowsOf(tbl, p)
    IN IF m = <<>> THEN Null ELSE Some(m[1][column])

\* column.fillna(default)
FillNa(x, default) == IF IsNull(x) THEN default ELSE x[1]

\* mutant: the One-time rule is missing
assign_planning_status_NoIgnore(row) ==
    IF row.recent_active_months = 0 /\ row.months_since_last_order > InactiveAfter
    THEN "Inactive"
    ELSE IF row.recent_active_months >= ActiveMin THEN "Active"
    ELSE "At-Risk"

\* mutant: Inactive only after more than 13 months
assign_planning_status_Late(row) ==
    IF row.DemandSegment = "One-time" THEN "Ignore"
    ELSE IF row.recent_active_months = 0 /\ row.months_since_last_order > InactiveAfter + 1
         THEN "Inactive"
    ELSE IF row.recent_active_months >= ActiveMin THEN "Active"
    ELSE "At-Risk"

assign_planning_status(row) ==
    IF row.DemandSegment = "One-time" THEN "Ignore"
    ELSE IF row.recent_active_months = 0 /\ row.months_since_last_order > InactiveAfter
         THEN "Inactive"
    ELSE IF row.recent_active_months >= ActiveMin THEN "Active"
    ELSE "At-Risk"

\* mutant: At-Risk needs 3 recent active months for an advisory forecast
assign_forecast_policy_Min3(row) ==
    IF row.PlanningStatus = "Active" THEN "Auto-Forecast"
    ELSE IF row.PlanningStatus = "At-Risk"
         THEN IF row.recent_active_months >= AdvisoryMin + 1
                 \/ FracGT(row.recent_avg_qty, row.avg_qty)
              THEN "Advisory-Forecast"
              ELSE "No-Forecast"
    ELSE "No-Forecast"

\* mutant: every At-Risk pair gets an advisory forecast
assign_forecast_policy_NoGate(row) ==
    IF row.PlanningStatus = "Active" THEN "Auto-Forecast"
    ELSE IF row.PlanningStatus = "At-Risk" THEN "Advisory-Forecast"
    ELSE "No-Forecast"

assign_forecast_policy(row) ==
    IF row.PlanningStatus = "Active" THEN "Auto-Forecast"
    ELSE IF row.PlanningStatus = "At-Risk"
         THEN IF row.recent_active_months >= AdvisoryMin
                 \/ FracGT(row.recent_avg_qty, row.avg_qty)
              THEN "Advisory-Forecast"
              ELSE "No-Forecast"
    ELSE "No-Forecast"

\* mutant: a missing months_since_last_order is filled with 0
PlanningJoin_FillZero(l1, l2, ra) ==
    LET p == PairOf(l1)
    IN [CustId |-> l1.CustId, ItemCode |-> l1.ItemCode,
        avg_qty |-> l1.avg_qty, var_qty |-> l1.var_qty,
        active_months |-> l1.active_months, total_months |-> l1.total_months,
        cv2 |-> l1.cv2, zero_months |-> l1.zero_months,
        zero_ratio |-> l1.zero_ratio, DemandSegment |-> l1.DemandSegment,
        first_order_month |-> Merged(l2, p, "first_order_month"),
        last_order_month |-> Merged(l2, p, "last_order_month"),
        months_since_last_order |-> FillNa(Merged(l2, p, "months_since_last_order"), 0),
        recent_active_months |-> FillNa(Merged(ra, p, "recent_active_months"), 0),
        recent_avg_qty |-> FillNa(Merged(ra, p, "recent_avg_qty"), <<0, 1>>)]

\* layer1_metrics merged with layer2_base and recent_activity, nulls filled
PlanningJoin(l1, l2, ra) ==
    LET p == PairOf(l1)
    IN [CustId |-> l1.CustId, ItemCode |-> l1.ItemCode,
        avg_qty |-> l1.avg_qty, var_qty |-> l1.var_qty,
        active_months |-> l1.active_months, total_months |-> l1.total_months,
        cv2 |-> l1.cv2, zero_months |-> l1.zero_months,
        zero_ratio |-> l1.zero_ratio, DemandSegment |-> l1.DemandSegment,
        first_order_month |-> Merged(l2, p, "first_order_month"),
        last_order_month |-> Merged(l2, p, "last_order_month"),
        months_since_last_order |-> FillNa(Merged(l2, p, "months_since_last_order"), l1.total_months),
        recent_active_months |-> FillNa(Merged(ra, p, "recent_active_months"), 0),
        recent_avg_qty |-> FillNa(Merged(ra, p, "recent_avg_qty"), <<0, 1>>)]

WithStatus(row) ==
    [f \in DOMAIN row \cup {"PlanningStatus"} |->
        IF f = "PlanningStatus" THEN assign_planning_status(row) ELSE row[f]]

WithPolicy(row) ==
    [f \in DOMAIN row \cup {"ForecastPolicy"} |->
        IF f = "ForecastPolicy" THEN assign_forecast_policy(row) ELSE row[f]]

Planning ==
    /\ pc = "planning"
    /\ \E joined \in {[j \in 1..Len(layer1_metrics) |->
                         PlanningJoin(layer1_metrics[j], layer2_base, recent_activity)]} :
       \E st \in {[j \in 1..Len(joined) |-> WithStatus(joined[j])]} :
          planning_df' = [j \in 1..Len(st) |-> WithPolicy(st[j])]
    /\ pc' = "forecast"
    /\ UNCHANGED <<df_raw, monthly_df, all_months, customer_item_map, monthly_full,
                   layer1_metrics, current_month, layer2_base, recent_activity,
                   forecast_df, forecast_summary, written, error, call, ret>>

---------------------------------------------------------------------------
(* STEP 11: forecast computation *)

ProbMonths == 12

\* ts[ts > 0]
NonZero(ts) == LET pos(x) == x > 0 IN SelectSeq(ts, pos)

\* s with x inserted before the first element greater than x (s sorted)
RECURSIVE InsertSorted(_, _, _)
InsertSorted(s, x, i) ==
    IF i > Len(s) THEN Append(s, x)
    ELSE IF s[i] > x THEN SubSeq(s, 1, i - 1) \o <<x>> \o SubSeq(s, i, Len(s))
    ELSE InsertSorted(s, x, i + 1)

RECURSIVE SortedUpTo(_, _)
SortedUpTo(s, n) ==
    IF n = 0 THEN <<>>
    ELSE CHOOSE r \in {InsertSorted(t, s[n], 1) : t \in {SortedUpTo(s, n - 1)}} : TRUE

\* Series.median() of a non-empty series, as a fraction
Median(s) ==
    CHOOSE r \in
      {IF Len(t) % 2 = 1 THEN <<t[(Len(t) + 1) \div 2], 1>>
       ELSE <<t[Len(t) \div 2] + t[Len(t) \div 2 + 1], 2>> :
          t \in {SortedUpTo(s, Len(s))}} : TRUE

\* Series.mean() of a non-empty series, as a fraction
Mean(s) == <<SumSeq(s), Len(s)>>

\* mutant: the last 6 months are taken first, the active ones among them after
forecast_next_month_TailFirst(ts, segment, recent_active_months) ==
    IF segment \in {"Stable", "Moderate"} THEN Mean(TailN(ts, TailLen))
    ELSE IF segment = "Lumpy"
         THEN IF Len(NonZero(TailN(ts, TailLen))) = 0 THEN <<0, 1>>
              ELSE Median(NonZero(TailN(ts, TailLen)))
    ELSE IF segment = "Intermittent"
         THEN IF Len(NonZero(ts)) = 0 THEN <<0, 1>>
              ELSE <<Mean(TailN(NonZero(ts), TailLen))[1] * recent_active_months,
                     Mean(TailN(NonZero(ts), TailLen))[2] * ProbMonths>>
    ELSE <<0, 1>>

forecast_next_month(ts, segment, recent_active_months) ==
    IF segment \in {"Stable", "Moderate"} THEN Mean(TailN(ts, TailLen))
    ELSE IF segment = "Lumpy"
         THEN IF Len(NonZero(ts)) = 0 THEN <<0, 1>>
              ELSE Median(TailN(NonZero(ts), TailLen))
    ELSE IF segment = "Intermittent"
         THEN IF Len(NonZero(ts)) = 0 THEN <<0, 1>>
              ELSE <<Mean(TailN(NonZero(ts), TailLen))[1] * recent_active_months,
                     Mean(TailN(NonZero(ts), TailLen))[2] * ProbMonths>>
    ELSE <<0, 1>>

\* round(x, 0) of a non-negative fraction: half to even
Round0(x) ==
    LET f == x[1] \div x[2]
        r == x[1] % x[2]
    IN IF 2 * r < x[2] THEN f
       ELSE IF 2 * r > x[2] THEN f + 1
       ELSE IF f % 2 = 0 THEN f ELSE f + 1

---------------------------------------------------------------------------
(* STEP 12: forecast output table *)

\* rows.sort_values("YearMonth")["TotalQty"]
SortedQty(rows) ==
    LET ms == MonthsOf(rows)
    IN IF ms = {} THEN <<>>
       ELSE Flatten([m \in 1..(SetMax(ms) - SetMin(ms) + 1) |->
               LET at(r) == r.YearMonth = SetMin(ms) + m - 1
               IN QtyOf(SelectSeq(rows, at))])

\* mutant: the loop does not skip the No-Forecast pairs
ForecastRow_NoSkip(row, mf) ==
    CHOOSE r \in
      {<<[CustId |-> row.CustId, ItemCode |-> row.ItemCode,
          ForecastQty_NextMonth |->
             Round0(forecast_next_month(ts, row.DemandSegment,
                                        row.recent_active_months))]>> :
         ts \in {SortedQty(RowsOf(mf, PairOf(row)))}} : TRUE

\* the body of the loop over planning_df for one row: no row is appended for
\* a No-Forecast pair
ForecastRow(row, mf) ==
    IF row.ForecastPolicy = "No-Forecast" THEN <<>>
    ELSE CHOOSE r \in
           {<<[CustId |-> row.CustId, ItemCode |-> row.ItemCode,
               ForecastQty_NextMonth |->
                  Round0(forecast_next_month(ts, row.DemandSegment,
                                             row.recent_active_months))]>> :
              ts \in {SortedQty(RowsOf(mf, PairOf(row)))}} : TRUE

ForecastRows(pdf, mf) == Flatten([j \in 1..Len(pdf) |-> ForecastRow(pdf[j], mf)])

\* mutant: the table is not checked for being empty
ForecastTable_NoAssert ==
    /\ pc = "forecast"
    /\ forecast_df' = ForecastRows(planning_df, monthly_full)
    /\ pc' = "write_summary"
    /\ UNCHANGED <<df_raw, monthly_df, all_months, customer_item_map, monthly_full,
                   layer1_metrics, current_month, layer2_base, recent_activity,
                   planning_df, forecast_summary, written, error, call, ret>>

ForecastTable ==
    /\ pc = "forecast"
    /\ forecast_df' = ForecastRows(planning_df, monthly_full)
    /\ IF Len(forecast_df') > 0
       THEN pc' = "write_summary" /\ error' = error
       ELSE Fail("No forecasts generated")
    /\ UNCHANGED <<df_raw, monthly_df, all_months, customer_item_map, monthly_full,
                   layer1_metrics, current_month, layer2_base, recent_activity,
                   planning_df, forecast_summary, written, call, ret>>

---------------------------------------------------------------------------
(* STEP 13: persist outputs *)

\* planning_df.merge(forecast_df, on=[CustId, ItemCode], how="left")[columns]
SummaryRows(row, fdf) ==
    LET m == RowsOf(fdf, PairOf(row))
        out(fq) ==
            [CustId |-> row.CustId, ItemCode |-> row.ItemCode,
             DemandSegment |-> row.DemandSegment,
             PlanningStatus |-> row.PlanningStatus,
             ForecastPolicy |-> row.ForecastPolicy,
             ForecastQty_NextMonth |-> fq,
             avg_qty |-> row.avg_qty, cv2 |-> row.cv2,
             zero_ratio |-> row.zero_ratio,
             recent_active_months |-> row.recent_active_months,
             months_since_last_order |-> row.months_since_last_order]
    IN IF m = <<>> THEN <<out(Null)>>
       ELSE [j \in 1..Len(m) |-> out(Some(m[j].ForecastQty_NextMonth))]

ForecastSummary(pdf, fdf) == Flatten([j \in 1..Len(pdf) |-> SummaryRows(pdf[j], fdf)])

WriteForecastSummary ==
    /\ pc = "write_summary"
    /\ forecast_summary' = ForecastSummary(planning_df, forecast_df)
    /\ written' = written \cup {"forecast_summary.csv"}
    /\ pc' = "write_history"
    /\ UNCHANGED <<df_raw, monthly_df, all_months, customer_item_map, monthly_full,
                   layer1_metrics, current_month, layer2_base, recent_activity,
                   planning_df, forecast_df, error, call, ret>>

WriteMonthlyHistory ==
    /\ pc = "write_history"
    /\ written' = written \cup {"monthly_history.csv"}
    /\ pc' = "write_map"
    /\ UNCHANGED <<df_raw, monthly_df, all_months, customer_item_map, monthly_full,
                   layer1_metrics, current_month, layer2_base, recent_activity,
                   planning_df, forecast_df, forecast_summary, error, call, ret>>

WriteCustomerItemMap ==
    /\ pc = "write_map"
    /\ customer_item_map' = DistinctPairs(planning_df)
    /\ written' = written \cup {"customer_item_map.csv"}
    /\ pc' = "done"
    /\ UNCHANGED <<df_raw, monthly_df, all_months, monthly_full,
                   layer1_metrics, current_month, layer2_base, recent_activity,
                   planning_df, forecast_df, forecast_summary, error, call, ret>>

---------------------------------------------------------------------------

Next ==
    \/ CheckRaw
    \/ MonthlyAggregation
    \/ FullMonthExpansion
    \/ Layer1
    \/ Layer2
    \/ Planning
    \/ ForecastTable
    \/ WriteForecastSummary
    \/ WriteMonthlyHistory
    \/ WriteCustomerItemMap

Spec == Init /\ [][Next]_vars

---------------------------------------------------------------------------
(* forecast_next_month on its own: the arguments are drawn from bounded sets *)
(* and one action applies the function.                                     *)

SegmentLabels == {"One-time", "Intermittent", "Lumpy", "Moderate", "Stable"}
TsQuantities == {0, 1, 3}
RecentCounts == {0, 1, 3, 12}

TsInputs == UNION {[1..n -> TsQuantities] : n \in 1..MaxTs}

InitEstimator ==
    /\ pc = "estimator"
    /\ call \in [ts : TsInputs, segment : SegmentLabels,
                 recent_active_months : RecentCounts]
    /\ ret = <<0, 1>>
    /\ df_raw = <<>>
    /\ monthly_df = <<>>
    /\ all_months = <<>>
    /\ customer_item_map = <<>>
    /\ monthly_full = <<>>
    /\ layer1_metrics = <<>>
    /\ current_month = 0
    /\ layer2_base = <<>>
    /\ recent_activity = <<>>
    /\ planning_df = <<>>
    /\ forecast_df = <<>>
    /\ forecast_summary = <<>>
    /\ written = {}
    /\ error = ""

Invoke ==
    /\ pc = "estimator"
    /\ ret' = forecast_next_month(call.ts, call.segment, call.recent_active_months)
    /\ pc' = "returned"
    /\ UNCHANGED <<df_raw, monthly_df, all_months, customer_item_map, monthly_full,
                   layer1_metrics, current_month, layer2_base, recent_activity,
                   planning_df, forecast_df, forecast_summary, written, error, call>>

NextEstimator == Invoke

SpecEstimator == InitEstimator /\ [][NextEstimator]_vars


---------------------------------------------------------------------------
(* Properties *)

AllFiles == {"forecast_summary.csv", "monthly_history.csv", "customer_item_map.csv"}

\* the run has passed STEP 6
Expanded ==
    /\ pc \notin {"check_raw", "aggregate", "expand", "estimator", "returned"}
    /\ pc = "failed" => error \in {"Negative recency detected", "No forecasts generated"}

\* the run has passed STEP 8
Segmented == Expanded /\ pc # "layer1"

\* the run has passed STEP 10
Planned == Segmented /\ pc \notin {"layer2", "planning"}
              /\ (pc = "failed" => error = "No forecasts generated")

\* what the input says, read off df_raw directly
InputPairs == {PairOf(df_raw[i]) : i \in 1..Len(df_raw)}
InputMonths == {df_raw[i].YearMonth : i \in 1..Len(df_raw)}
InputTotal(p, m) ==
    LET idx == {i \in 1..Len(df_raw) : PairOf(df_raw[i]) = p /\ df_raw[i].YearMonth = m}
        q == SetToSeq(idx)
    IN SumSeq([j \in 1..Len(q) |-> df_raw[q[j]].Quantity])

\* the grid cells of pair p in month m
Cells(p, m) ==
    {i \in 1..Len(monthly_full) :
        PairOf(monthly_full[i]) = p /\ monthly_full[i].YearMonth = m}

\* C1: in the forecast summary of a completed run, every input pair has a
\* row, and a row's ForecastQty_NextMonth is null exactly when its
\* ForecastPolicy is No-Forecast.
ThmC1 ==
    pc = "done" =>
        /\ \A p \in InputPairs :
              \E i \in 1..Len(forecast_summary) : PairOf(forecast_summary[i]) = p
        /\ \A i \in 1..Len(forecast_summary) :
              IsNull(forecast_summary[i].ForecastQty_NextMonth)
                 <=> forecast_summary[i].ForecastPolicy = "No-Forecast"

\* a completed run whose summary holds both a forecast and a null
WitC1 ==
    /\ pc = "done"
    /\ \E i \in 1..Len(forecast_summary) :
          /\ forecast_summary[i].ForecastPolicy = "No-Forecast"
          /\ IsNull(forecast_summary[i].ForecastQty_NextMonth)
    /\ \E i \in 1..Len(forecast_summary) :
          /\ forecast_summary[i].ForecastPolicy = "Advisory-Forecast"
          /\ ~IsNull(forecast_summary[i].ForecastQty_NextMonth)

\* C2: after grid expansion every input pair has exactly one cell for each
\* month between the first and the last month of the input, holding the
\* pair's total for that month (0 when it has no transaction), the grid has
\* no other cell, and once Layer 1 ran every pair has one metrics row whose
\* total_months is the number of months in that range.
ThmC2 ==
    Expanded =>
        LET lo == SetMin(InputMonths)
            hi == SetMax(InputMonths)
        IN /\ \A p \in InputPairs : \A m \in lo..hi :
                 /\ Cardinality(Cells(p, m)) = 1
                 /\ \A i \in Cells(p, m) : monthly_full[i].TotalQty = InputTotal(p, m)
           /\ \A i \in 1..Len(monthly_full) :
                 /\ PairOf(monthly_full[i]) \in InputPairs
                 /\ monthly_full[i].YearMonth \in lo..hi
           /\ Segmented =>
                 /\ \A p \in InputPairs :
                       Cardinality({j \in 1..Len(layer1_metrics) :
                                       PairOf(layer1_metrics[j]) = p}) = 1
                 /\ \A j \in 1..Len(layer1_metrics) :
                       layer1_metrics[j].total_months = hi - lo + 1

\* two pairs, one of them without a transaction in some month of the range
WitC2 ==
    /\ Segmented
    /\ Cardinality(InputPairs) >= 2
    /\ \E i \in 1..Len(monthly_full) :
          /\ monthly_full[i].TotalQty = 0
          /\ \A k \in 1..Len(df_raw) : KeyOf(df_raw[k]) # KeyOf(monthly_full[i])
    /\ \E j \in 1..Len(layer1_metrics) : layer1_metrics[j].total_months >= 3

\* C3: every pair gets exactly one of the five labels, the one of the first
\* rule that matches in the order One-time, Intermittent, Lumpy, Moderate,
\* Stable; a pair with at most 2 active months is One-time whatever its
\* zero_ratio and cv.
ThmC3 ==
    \A j \in 1..Len(layer1_metrics) :
        LET r == layer1_metrics[j]
            sparse == r.active_months <= 2
            gappy == 5 * r.zero_months > 4 * r.total_months
            cvHigh == 4 * r.cv2[1] > 9 * r.cv2[2]
            cvMid == 4 * r.cv2[1] > r.cv2[2]
        IN /\ r.DemandSegment \in SegmentLabels
           /\ sparse => r.DemandSegment = "One-time"
           /\ ~sparse /\ gappy => r.DemandSegment = "Intermittent"
           /\ ~sparse /\ ~gappy /\ cvHigh => r.DemandSegment = "Lumpy"
           /\ ~sparse /\ ~gappy /\ ~cvHigh /\ cvMid => r.DemandSegment = "Moderate"
           /\ ~sparse /\ ~gappy /\ ~cvHigh /\ ~cvMid => r.DemandSegment = "Stable"

\* a pair active in one month whose zero_ratio and cv alone would make it Lumpy
WitC3 ==
    \E j \in 1..Len(layer1_metrics) :
        LET r == layer1_metrics[j]
        IN /\ r.active_months = 1
           /\ 5 * r.zero_months <= 4 * r.total_months
           /\ 4 * r.cv2[1] > 9 * r.cv2[2]
           /\ r.DemandSegment = "One-time"

\* C4 as stated: every pair whose zero_ratio is 0.9 is Intermittent.
CexC4 ==
    \A j \in 1..Len(layer1_metrics) :
        10 * layer1_metrics[j].zero_months = 9 * layer1_metrics[j].total_months
            => layer1_metrics[j].DemandSegment = "Intermittent"

\* C4 (amended): a pair whose zero_ratio is 0.9 is Intermittent when it has
\* at least 3 active months, and One-time when it has at most 2 (as a pair
\* active in 2 of 20 months has).
ThmC4 ==
    \A j \in 1..Len(layer1_metrics) :
        LET r == layer1_metrics[j]
        IN 10 * r.zero_months = 9 * r.total_months =>
              /\ r.active_months >= 3 => r.DemandSegment = "Intermittent"
              /\ r.active_months <= 2 => r.DemandSegment = "One-time"

\* a pair active in 3 of 30 months, labelled Intermittent
WitC4 ==
    \E j \in 1..Len(layer1_metrics) :
        /\ layer1_metrics[j].total_months = 30
        /\ layer1_metrics[j].active_months = 3
        /\ layer1_metrics[j].DemandSegment = "Intermittent"

\* C5 as stated: months_since_last_order = 13 with no recent active month
\* gives Inactive and No-Forecast.
CexC5 ==
    \A j \in 1..Len(planning_df) :
        planning_df[j].months_since_last_order = 13
           /\ planning_df[j].recent_active_months = 0
        => /\ planning_df[j].PlanningStatus = "Inactive"
           /\ planning_df[j].ForecastPolicy = "No-Forecast"

\* C5 (amended): such a pair gets No-Forecast; its status is Inactive unless
\* its segment is One-time, and Ignore when it is.
ThmC5 ==
    \A j \in 1..Len(planning_df) :
        LET r == planning_df[j]
        IN r.months_since_last_order = 13 /\ r.recent_active_months = 0 =>
              /\ r.ForecastPolicy = "No-Forecast"
              /\ r.active_months >= 3 => r.PlanningStatus = "Inactive"
              /\ r.active_months <= 2 => r.PlanningStatus = "Ignore"

\* a pair with 3 active months, the last one 13 months before the reference
WitC5 ==
    \E j \in 1..Len(planning_df) :
        /\ planning_df[j].months_since_last_order = 13
        /\ planning_df[j].recent_active_months = 0
        /\ planning_df[j].active_months >= 3
        /\ planning_df[j].PlanningStatus = "Inactive"
        /\ planning_df[j].ForecastPolicy = "No-Forecast"

\* the active months of pair p in the grid
ActiveMonthsOf(p) ==
    {monthly_full[i].YearMonth : i \in
        {k \in 1..Len(monthly_full) :
            PairOf(monthly_full[k]) = p /\ monthly_full[k].TotalQty > 0}}

\* C6: after the planning join, a pair with an active month has
\* months_since_last_order >= 0, the number of months from its last active
\* month to the last month of the grid; a pair without one has
\* months_since_last_order = total_months.
ThmC6 ==
    /\ \A j \in 1..Len(layer2_base) :
          layer2_base[j].months_since_last_order
             = current_month - SetMax(ActiveMonthsOf(PairOf(layer2_base[j])))
    /\ \A j \in 1..Len(planning_df) :
          LET r == planning_df[j]
              act == ActiveMonthsOf(PairOf(r))
          IN IF act # {}
             THEN /\ r.months_since_last_order >= 0
                  /\ r.months_since_last_order = SetMax(InputMonths) - SetMax(act)
             ELSE r.months_since_last_order = r.total_months

\* a pair without any active month beside a pair last active a year or more ago
WitC6 ==
    /\ \E j \in 1..Len(planning_df) :
          /\ planning_df[j].active_months = 0
          /\ planning_df[j].months_since_last_order = planning_df[j].total_months
    /\ \E j \in 1..Len(planning_df) :
          /\ planning_df[j].active_months > 0
          /\ planning_df[j].months_since_last_order > 0

NegativeTotal == \E p \in InputPairs : \E m \in InputMonths : InputTotal(p, m) < 0

AllNoForecast ==
    /\ Planned
    /\ \A j \in 1..Len(planning_df) : planning_df[j].ForecastPolicy = "No-Forecast"

\* C7: a run that completed has written the three tables and a run that
\* aborted has written none; a run whose input is empty, or has a negative
\* monthly total, or whose pairs all got No-Forecast, never writes a table
\* and never completes.
ThmC7 ==
    /\ pc = "done" => written = AllFiles
    /\ pc = "failed" => written = {}
    /\ (Len(df_raw) = 0 \/ NegativeTotal \/ AllNoForecast)
          => written = {} /\ pc # "done"

\* a run aborted because every pair got No-Forecast
WitC7 ==
    /\ pc = "failed"
    /\ error = "No forecasts generated"
    /\ AllNoForecast
    /\ Cardinality(InputPairs) >= 2
    /\ written = {}

\* C8: Active gives Auto-Forecast, Inactive and Ignore give No-Forecast,
\* At-Risk gives Advisory-Forecast exactly when recent_active_months >= 2 or
\* recent_avg_qty > avg_qty, else No-Forecast.
ThmC8 ==
    \A j \in 1..Len(planning_df) :
        LET r == planning_df[j]
            advisory == \/ r.recent_active_months >= 2
                        \/ r.recent_avg_qty[1] * r.avg_qty[2]
                              > r.avg_qty[1] * r.recent_avg_qty[2]
        IN /\ r.PlanningStatus \in {"Active", "At-Risk", "Inactive", "Ignore"}
           /\ r.PlanningStatus = "Active" => r.ForecastPolicy = "Auto-Forecast"
           /\ r.PlanningStatus \in {"Inactive", "Ignore"}
                 => r.ForecastPolicy = "No-Forecast"
           /\ r.PlanningStatus = "At-Risk" /\ advisory
                 => r.ForecastPolicy = "Advisory-Forecast"
           /\ r.PlanningStatus = "At-Risk" /\ ~advisory
                 => r.ForecastPolicy = "No-Forecast"

\* an At-Risk pair with one recent active month, forecast only because its
\* recent average exceeds its lifetime average
WitC8 ==
    \E j \in 1..Len(planning_df) :
        LET r == planning_df[j]
        IN /\ r.PlanningStatus = "At-Risk"
           /\ r.recent_active_months = 1
           /\ r.recent_avg_qty[1] * r.avg_qty[2] > r.avg_qty[1] * r.recent_avg_qty[2]
           /\ r.ForecastPolicy = "Advisory-Forecast"

\* the positions of the last TailLen active months of ts
LastActive(ts) ==
    {i \in 1..Len(ts) :
        /\ ts[i] > 0
        /\ Cardinality({k \in (i + 1)..Len(ts) : ts[k] > 0}) < TailLen}

\* the k-th smallest of the values of ts at the positions I
OrderStat(ts, I, k) ==
    CHOOSE x \in {ts[i] : i \in I} :
        /\ Cardinality({i \in I : ts[i] < x}) < k
        /\ Cardinality({i \in I : ts[i] <= x}) >= k

\* twice the median of the values of ts at the positions I
TwiceMedian(ts, I) ==
    LET n == Cardinality(I)
    IN OrderStat(ts, I, (n + 1) \div 2) + OrderStat(ts, I, n \div 2 + 1)

\* C9: for segment Lumpy the estimate is the median of the last 6 active
\* months of the series, and 0 when the series has no active month.
ThmC9 ==
    pc = "returned" /\ call.segment = "Lumpy" =>
        LET I == LastActive(call.ts)
        IN IF I = {} THEN ret[1] = 0
           ELSE 2 * ret[1] = TwiceMedian(call.ts, I) * ret[2]

\* a Lumpy series of 6 active months with an inactive month among its last 6
\* months, whose median 2 lies between two of its values
WitC9 ==
    /\ pc = "returned"
    /\ call.segment = "Lumpy"
    /\ Cardinality({i \in 1..Len(call.ts) : call.ts[i] > 0}) >= 6
    /\ \E i \in 1..Len(call.ts) : i > Len(call.ts) - TailLen /\ call.ts[i] = 0
    /\ ret[2] = 2
    /\ ret[1] = 4

\* C10: a pair without an active month among the last 12 months of the grid
\* gets No-Forecast, whatever its segment and its months_since_last_order.
ThmC10 ==
    \A j \in 1..Len(planning_df) :
        (\A m \in ActiveMonthsOf(PairOf(planning_df[j])) : m <= current_month - 12)
            => /\ planning_df[j].recent_active_months = 0
               /\ planning_df[j].ForecastPolicy = "No-Forecast"

\* a pair with 3 active months, last active exactly 12 months before the
\* reference month: At-Risk, and No-Forecast
WitC10 ==
    \E j \in 1..Len(planning_df) :
        /\ planning_df[j].recent_active_months = 0
        /\ planning_df[j].months_since_last_order = 12
        /\ planning_df[j].DemandSegment # "One-time"
        /\ planning_df[j].PlanningStatus = "At-Risk"
        /\ planning_df[j].ForecastPolicy = "No-Forecast"

\* C11: every pair whose policy is not No-Forecast has segment Stable,
\* Moderate, Lumpy or Intermittent and at least 3 active months in the grid,
\* and every row of the forecast table belongs to such a pair: no emitted
\* forecast comes from the estimator's fallbacks (0 for another label, 0 for
\* a series without an active month).
ThmC11 ==
    /\ \A j \in 1..Len(planning_df) :
          planning_df[j].ForecastPolicy # "No-Forecast" =>
             /\ planning_df[j].DemandSegment
                   \in {"Stable", "Moderate", "Lumpy", "Intermittent"}
             /\ planning_df[j].active_months >= 3
             /\ Cardinality(ActiveMonthsOf(PairOf(planning_df[j]))) >= 3
    /\ \A i \in 1..Len(forecast_df) :
          \E j \in 1..Len(planning_df) :
             /\ PairOf(planning_df[j]) = PairOf(forecast_df[i])
             /\ planning_df[j].ForecastPolicy # "No-Forecast"

\* a completed run that forecasts a pair of exactly 3 active months and
\* leaves out a One-time pair with 2 recent active months
WitC11 ==
    /\ pc = "done"
    /\ \E i \in 1..Len(forecast_df) : \E j \in 1..Len(planning_df) :
          /\ PairOf(planning_df[j]) = PairOf(forecast_df[i])
          /\ planning_df[j].active_months = 3
    /\ \E j \in 1..Len(planning_df) :
          /\ planning_df[j].DemandSegment = "One-time"
          /\ planning_df[j].recent_active_months >= 2
          /\ \A i \in 1..Len(forecast_df) :
                PairOf(forecast_df[i]) # PairOf(planning_df[j])

=============================================================================
